---- MODULE Spec2Model ----
(***************************************************************************)
(* A model of Web3TrackingAnalyzer (src/tracking-analyzer.js) and of the   *)
(* batch runner that drives it (src/run-analysis.js).                       *)
(*                                                                          *)
(* analyze(url) is an async function: every `await` is a point where the   *)
(* collaborator (the browser, the file system) either resolves or rejects.  *)
(* pc is the position of the one logical thread of control; each action is  *)
(* the code between two awaits, with one disjunct for the awaited promise   *)
(* resolving and one for it rejecting.                                      *)
(*                                                                          *)
(* Strings are TLA+ strings; String.prototype.includes is the substring     *)
(* search Includes below.                                                   *)
(***************************************************************************)
EXTENDS Integers, Sequences, FiniteSets, TLC

VARIABLES
    pc,         \* position of the thread of control
    idx,        \* number of analyze calls started so far
    url,        \* argument of the analyze call in progress (or last made)
    calls,      \* the arguments of every analyze call so far, in call order
    results,    \* this.results: URL -> AnalysisRecord
    browsers,   \* the browser sessions that are open (by call number)
    page,       \* the document the session is showing (NoPage before goto)
    pending,    \* requests the page has issued that the route handler has not seen
    continued,  \* requests the route handler has let through (route.continue())
    routed,     \* the route handler is installed on this session's page
    patched,    \* the three API wrappers are installed in this session's page
    windowFp,   \* window._fingerprinting of the page: the flags the wrappers set
    error,      \* the message bound by analyze's catch clause in this call
    logged,     \* console.error lines of this call, by call site
    writes,     \* every saveResults attempt: the call making it and what it serialises
    outcome,    \* how the last analyze call ended: "none", "returned", "raised"
    ret,        \* the record the last analyze call returned
    report,     \* the value of the last generateReport call since the last analyze
    prevReport  \* the value of the generateReport call before that one, if any

vars == <<pc, idx, url, calls, results, browsers, page, pending, continued, routed,
          patched, windowFp, error, logged, writes, outcome, ret, report,
          prevReport>>

(***************************************************************************)
(* Bounds of the model.                                                     *)
(***************************************************************************)
\* analyze calls an arbitrary client of the class makes
MaxCalls == 2
\* length of the prefix of DAPPS_TO_ANALYZE the batch runner is given
NumDapps == 2
\* number of fragments a request URL is put together from
MaxFrags == 2

\* what a variable holds while the program has no value for it
NoPage == [none |-> "page"]
NoValue == [none |-> "record"]
NoReport == [none |-> "report"]
NoError == "(no error)"
NoUrl == "(no call)"

\* the message of the error page.goto rejects with
GotoTimeout == "page.goto: Timeout 30000ms exceeded"

(***************************************************************************)
(* Strings.                                                                 *)
(***************************************************************************)
\* s.includes(p)
Includes(s, p) ==
    \E i \in 0..(Len(s) - Len(p)) : SubSeq(s, i + 1, i + Len(p)) = p

\* patterns.some(p => s.includes(p)), patterns a sequence
SomeIncluded(patterns, s) ==
    \E k \in 1..Len(patterns) : Includes(s, patterns[k])

Range(seq) == {seq[k] : k \in 1..Len(seq)}

(***************************************************************************)
(* The pattern matching heuristics.                                         *)
(***************************************************************************)
RequestPatterns == <<"cookie3.co", "analytics", "tracking", "collect", "wallet">>

isTrackingRequest(u) == SomeIncluded(RequestPatterns, u)

\* the tests in another order
categorizeRequest_analyticsFirst(u) ==
    IF Includes(u, "analytics") THEN "analytics"
    ELSE IF Includes(u, "cookie3.co") THEN "cookie3"
    ELSE IF Includes(u, "tracking") THEN "tracking"
    ELSE "other"

categorizeRequest(u) ==
    IF Includes(u, "cookie3.co") THEN "cookie3"
    ELSE IF Includes(u, "analytics") THEN "analytics"
    ELSE IF Includes(u, "tracking") THEN "tracking"
    ELSE "other"

CookiePatterns == <<"cookie3", "analytics", "_ga", "track">>

isTrackingCookie(cookie) ==
    \E k \in 1..Len(CookiePatterns) :
        \/ Includes(cookie.name, CookiePatterns[k])
        \/ Includes(cookie.domain, CookiePatterns[k])

ScriptTerms == <<"cookie3", "analytics", "tracking", "wallet", "web3">>

\* the filter of analyzeTrackingScripts, evaluated in the page
isTrackingScript(script) ==
    \E k \in 1..Len(ScriptTerms) :
        \/ Includes(script.src, ScriptTerms[k])
        \/ Includes(script.content, ScriptTerms[k])

WalletPatterns == <<"accountsChanged", "ethereum.on(", "wallet.on(", "web3">>

\* the function analyzeWalletTracking evaluates in the page
DetectWallet(p) ==
    LET fromProvider == IF p.ethereum THEN <<"ethereum">> ELSE <<>>
        fromSource == SelectSeq(WalletPatterns, LAMBDA pat : Includes(p.html, pat))
    IN  [detected |-> p.ethereum \/ SomeIncluded(WalletPatterns, p.html),
         methods |-> fromProvider \o fromSource]

(***************************************************************************)
(* The pages a site may serve: what the browser shows analyze after goto.  *)
(* scripts are the script elements, requests the requests the page issues, *)
(* invokes the patched APIs the page calls while it loads.                  *)
(***************************************************************************)
EmptyStorage == [k \in {} |-> ""]

PlainPage ==
    [scripts  |-> <<[src |-> "https://cdn.example/app.js", content |-> ""]>>,
     requests |-> <<>>,
     storage  |-> EmptyStorage,
     cookies  |-> <<[name |-> "session", domain |-> "example.org"]>>,
     ethereum |-> FALSE,
     html     |-> "<html><body>swap</body></html>",
     invokes  |-> {}]

TrackerPage ==
    [scripts  |-> <<[src |-> "https://cdn.cookie3.co/c3.js", content |-> ""],
                    [src |-> "https://x.com/Analytics.js", content |-> ""],
                    [src |-> "", content |-> "web3.init()"]>>,
     requests |-> <<"https://api.cookie3.co/analytics">>,
     storage  |-> [k \in {"c3_uid"} |-> "42"],
     cookies  |-> <<[name |-> "_ga", domain |-> ".example.org"],
                    [name |-> "session", domain |-> "example.org"]>>,
     ethereum |-> TRUE,
     html     |-> "<script>ethereum.on('accountsChanged',f)</script>",
     invokes  |-> {"canvas", "audio"}]

Pages == {PlainPage, TrackerPage}

\* the sites of the usage example, as the URLs a client may pass to analyze
Sites == {"https://app.uniswap.org", "https://polkastarter.com"}

\* the head of the batch runner's list
AllDapps ==
    <<"https://app.uniswap.org", "https://balancer.fi/swap/ethereum/ETH",
      "https://pancakeswap.finance/", "https://swap.cow.fi/#/1/swap/WETH">>

DAPPS_TO_ANALYZE == SubSeq(AllDapps, 1, NumDapps)

(***************************************************************************)
(* The record analyze creates, and the updates of this.results.             *)
(***************************************************************************)
\* the object literal assigned to this.results[url]; the timestamp is the
\* instant of the call, which the call number stands for
FreshRecord(u, now) ==
    [url |-> u,
     timestamp |-> now,
     trackingScripts |-> <<>>,
     networkRequests |-> <<>>,
     cookies |-> <<>>,
     fingerprinting |-> [canvas |-> FALSE, webgl |-> FALSE, fonts |-> FALSE,
                         audio |-> FALSE],
     walletTracking |-> [detected |-> FALSE, methods |-> <<>>]]

\* obj[key] = val on a JavaScript object
SetField(obj, key, val) ==
    [k \in DOMAIN obj \cup {key} |-> IF k = key THEN val ELSE obj[k]]

\* an assignment that keeps the fields of an entry already there
StoreRecord_merge(res, u, rec) ==
    IF u \in DOMAIN res
    THEN SetField(res, u, [k \in DOMAIN res[u] \cup DOMAIN rec |->
                              IF k \in DOMAIN rec THEN rec[k] ELSE res[u][k]])
    ELSE SetField(res, u, rec)

\* this.results[url] = { ... }
StoreRecord(res, u, rec) == SetField(res, u, rec)

\* this.results[url].<field> = val
SetRecordField(res, u, field, val) ==
    SetField(res, u, SetField(res[u], field, val))

\* serialising the current URL's record alone
SavedData_onlyCurrent(res, u) == [k \in {u} |-> res[u]]

\* JSON.stringify(this.results, null, 2): the whole mapping
SavedData(res, u) == res

(***************************************************************************)
(* generateReport.                                                          *)
(***************************************************************************)
\* the for-in loop over this.results, keys being the entries still to visit
RECURSIVE Tally(_, _)
Tally(res, keys) ==
    IF keys = {} THEN [cookie3 |-> 0, fingerprinting |-> 0, wallet |-> 0]
    ELSE LET u == CHOOSE k \in keys : TRUE
             result == res[u]
             r == Tally(res, keys \ {u})
         IN  [cookie3 |-> r.cookie3 +
                 (IF \E k \in 1..Len(result.trackingScripts) :
                         Includes(result.trackingScripts[k].src, "cookie3")
                  THEN 1 ELSE 0),
              fingerprinting |-> r.fingerprinting +
                 (IF \/ result.fingerprinting.canvas
                     \/ result.fingerprinting.webgl
                     \/ result.fingerprinting.audio
                  THEN 1 ELSE 0),
              wallet |-> r.wallet +
                 (IF result.walletTracking.detected THEN 1 ELSE 0)]

\* a report that leaves out the records with errors
generateReport_countsErrorFree(res) ==
    LET ok == {u \in DOMAIN res : "errors" \notin DOMAIN res[u]}
        t == Tally(res, ok)
    IN  [analyzedUrls |-> Cardinality(ok),
         trackingImplementations |->
             [cookie3 |-> t.cookie3, googleAnalytics |-> 0, customTracking |-> 0],
         fingerprintingDetected |-> t.fingerprinting,
         walletTrackingDetected |-> t.wallet,
         details |-> [u \in ok |-> res[u]]]

generateReport(res) ==
    LET t == Tally(res, DOMAIN res)
    IN  [analyzedUrls |-> Cardinality(DOMAIN res),
         trackingImplementations |->
             [cookie3 |-> t.cookie3, googleAnalytics |-> 0, customTracking |-> 0],
         fingerprintingDetected |-> t.fingerprinting,
         walletTrackingDetected |-> t.wallet,
         details |-> res]

(***************************************************************************)
(* The state after `new Web3TrackingAnalyzer()`.                            *)
(***************************************************************************)
sessionVars == <<page, pending, continued, routed, patched, windowFp>>
callerVars == <<idx, url, calls, report, prevReport>>
endVars == <<outcome, ret>>

Init ==
    /\ pc = "idle"
    /\ idx = 0
    /\ url = NoUrl
    /\ calls = <<>>
    /\ results = <<>>
    /\ browsers = {}
    /\ page = NoPage
    /\ pending = <<>>
    /\ continued = <<>>
    /\ routed = FALSE
    /\ patched = FALSE
    /\ windowFp = {}
    /\ error = NoError
    /\ logged = {}
    /\ writes = <<>>
    /\ outcome = "none"
    /\ ret = NoValue
    /\ report = NoReport
    /\ prevReport = NoReport

(***************************************************************************)
(* analyze(url).                                                            *)
(***************************************************************************)
\* the call itself: a fresh activation, no session, no page yet
BeginAnalyze(u) ==
    /\ pc' = "launch"
    /\ idx' = idx + 1
    /\ url' = u
    /\ calls' = Append(calls, u)
    /\ page' = NoPage
    /\ pending' = <<>>
    /\ continued' = <<>>
    /\ routed' = FALSE
    /\ patched' = FALSE
    /\ windowFp' = {}
    /\ error' = NoError
    /\ logged' = {}
    /\ outcome' = "none"
    /\ ret' = NoValue
    /\ report' = NoReport
    /\ prevReport' = NoReport
    /\ UNCHANGED <<results, browsers, writes>>

\* an awaited promise rejects outside the try block: analyze rejects
Raise ==
    /\ pc' = "idle"
    /\ outcome' = "raised"
    /\ UNCHANGED <<results, error, logged, writes, ret, callerVars, sessionVars>>

\* a catch clause that lets the error out of analyze
CatchError_rethrows(msg) ==
    /\ pc' = "idle"
    /\ outcome' = "raised"
    /\ error' = msg
    /\ logged' = logged \cup {"analyze"}
    /\ UNCHANGED <<results, browsers, writes, ret, callerVars, sessionVars>>

\* the catch clause: console.error, then errors = [error.message]
CatchError(msg) ==
    /\ pc' = "close"
    /\ error' = msg
    /\ logged' = logged \cup {"analyze"}
    /\ results' = SetRecordField(results, url, "errors", <<msg>>)
    /\ UNCHANGED <<browsers, writes, endVars, callerVars, sessionVars>>

\* a step of the try block that resolved
Proceed(next) ==
    /\ pc' = next
    /\ UNCHANGED <<browsers, error, logged, writes, endVars, callerVars>>

\* await chromium.launch(...)
Launch ==
    /\ pc = "launch"
    /\ \/ /\ pc' = "newContext"
          /\ browsers' = browsers \cup {idx}
          /\ UNCHANGED <<results, error, logged, writes, endVars, callerVars,
                         sessionVars>>
       \/ Raise /\ UNCHANGED browsers

\* await browser.newContext(...)
NewContext ==
    /\ pc = "newContext"
    /\ \/ /\ pc' = "newPage"
          /\ UNCHANGED <<results, browsers, error, logged, writes, endVars,
                         callerVars, sessionVars>>
       \/ Raise /\ UNCHANGED browsers

\* await context.newPage(), then this.results[url] = { ... }
NewPage ==
    /\ pc = "newPage"
    /\ \/ /\ pc' = "setupNetworkMonitoring"
          /\ results' = StoreRecord(results, url, FreshRecord(url, idx))
          /\ UNCHANGED <<browsers, error, logged, writes, endVars, callerVars,
                         sessionVars>>
       \/ Raise /\ UNCHANGED browsers

\* await this.setupNetworkMonitoring(page, url): page.route('**/*', handler)
SetupNetworkMonitoring ==
    /\ pc = "setupNetworkMonitoring"
    /\ \/ /\ Proceed("setupFingerprintingDetection")
          /\ routed' = TRUE
          /\ UNCHANGED <<results, page, pending, continued, patched, windowFp>>
       \/ CatchError("page.route failed")

\* await this.setupFingerprintingDetection(page, url): the wrappers are
\* installed in the document the page shows now
SetupFingerprintingDetection ==
    /\ pc = "setupFingerprintingDetection"
    /\ \/ /\ Proceed("goto")
          /\ patched' = TRUE
          /\ UNCHANGED <<results, page, pending, continued, routed, windowFp>>
       \/ CatchError("page.evaluate failed")

\* page.goto(url, ...) starts: the site serves a page, which issues the
\* navigation request and its own, and calls the APIs it calls.  Whether the
\* wrappers installed in the previous document are still in place in the new
\* one is the browser's choice.
GotoStart ==
    /\ pc = "goto"
    /\ \E p \in Pages, lost \in BOOLEAN :
          /\ page' = p
          /\ pending' = <<url>> \o p.requests
          /\ windowFp' = IF patched /\ ~lost THEN p.invokes ELSE {}
    /\ Proceed("loading")
    /\ UNCHANGED <<results, continued, routed, patched>>

\* await page.goto(...) settles: network idle, or a timeout or navigation error
GotoEnd ==
    /\ pc = "loading"
    /\ \/ /\ pending = <<>>
          /\ Proceed("analyzeTrackingScripts")
          /\ UNCHANGED <<results, sessionVars>>
       \/ CatchError(GotoTimeout)

\* the route handler, run by the browser for a request of the open page; the
\* method, headers and body it copies from the request are not read anywhere
OnRequest ==
    /\ routed
    /\ idx \in browsers
    /\ pending # <<>>
    /\ LET requestUrl == Head(pending)
       IN  /\ pending' = Tail(pending)
           /\ continued' = Append(continued, requestUrl)
           /\ results' =
                 IF isTrackingRequest(requestUrl)
                 THEN SetRecordField(results, url, "networkRequests",
                          Append(results[url].networkRequests,
                                 [url |-> requestUrl,
                                  type |-> categorizeRequest(requestUrl)]))
                 ELSE results
    /\ UNCHANGED <<pc, browsers, page, routed, patched, windowFp, error, logged,
                   writes, endVars, callerVars>>

\* await this.analyzeTrackingScripts(page, url)
AnalyzeTrackingScripts ==
    /\ pc = "analyzeTrackingScripts"
    /\ \/ /\ Proceed("analyzeLocalStorage")
          /\ results' = SetRecordField(results, url, "trackingScripts",
                            SelectSeq(page.scripts, isTrackingScript))
          /\ UNCHANGED sessionVars
       \/ CatchError("scripts: page.evaluate failed")

\* await this.analyzeLocalStorage(page, url)
AnalyzeLocalStorage ==
    /\ pc = "analyzeLocalStorage"
    /\ \/ /\ Proceed("analyzeCookies")
          /\ results' = SetRecordField(results, url, "localStorage", page.storage)
          /\ UNCHANGED sessionVars
       \/ CatchError("localStorage: page.evaluate failed")

\* await this.analyzeCookies(context, url)
AnalyzeCookies ==
    /\ pc = "analyzeCookies"
    /\ \/ /\ Proceed("analyzeWalletTracking")
          /\ results' = SetRecordField(results, url, "cookies",
                            SelectSeq(page.cookies, isTrackingCookie))
          /\ UNCHANGED sessionVars
       \/ CatchError("context.cookies failed")

\* await this.analyzeWalletTracking(page, url)
AnalyzeWalletTracking ==
    /\ pc = "analyzeWalletTracking"
    /\ \/ /\ Proceed("saveScreenshot")
          /\ results' = SetRecordField(results, url, "walletTracking",
                            DetectWallet(page))
          /\ UNCHANGED sessionVars
       \/ CatchError("wallet: page.evaluate failed")

\* a saveScreenshot without its own try
ScreenshotFailed_propagates == CatchError("screenshot failed")

\* the catch clause of saveScreenshot: console.error, nothing else
ScreenshotFailed ==
    /\ pc' = "close"
    /\ logged' = logged \cup {"screenshot"}
    /\ UNCHANGED <<results, browsers, error, writes, endVars, callerVars,
                   sessionVars>>

\* await this.saveScreenshot(page, url): fs.mkdir and page.screenshot in a try
SaveScreenshot ==
    /\ pc = "saveScreenshot"
    /\ \/ /\ Proceed("close")
          /\ UNCHANGED <<results, sessionVars>>
       \/ ScreenshotFailed

\* going on to saveResults without closing the browser
Close_keepsSession ==
    /\ pc = "close"
    /\ pc' = "saveResults"
    /\ pending' = <<>>
    /\ UNCHANGED <<results, browsers, page, continued, routed, patched, windowFp,
                   error, logged, writes, endVars, callerVars>>

\* await browser.close(): it resolves once the browser process is gone, also
\* when it was gone already, and with it the session and its page
Close ==
    /\ pc = "close"
    /\ pc' = "saveResults"
    /\ browsers' = browsers \ {idx}
    /\ pending' = <<>>
    /\ UNCHANGED <<results, page, continued, routed, patched, windowFp, error,
                   logged, writes, endVars, callerVars>>

\* await this.saveResults(), fs.mkdir and fs.writeFile in a try, and then
\* return this.results[url]
SaveResults ==
    /\ pc = "saveResults"
    /\ writes' = Append(writes, [call |-> idx, data |-> SavedData(results, url)])
    /\ \E written \in BOOLEAN :
          logged' = IF written THEN logged ELSE logged \cup {"results"}
    /\ pc' = "idle"
    /\ outcome' = "returned"
    /\ ret' = results[url]
    /\ UNCHANGED <<results, browsers, error, callerVars, sessionVars>>

Analyze ==
    \/ Launch
    \/ NewContext
    \/ NewPage
    \/ SetupNetworkMonitoring
    \/ SetupFingerprintingDetection
    \/ GotoStart
    \/ GotoEnd
    \/ OnRequest
    \/ AnalyzeTrackingScripts
    \/ AnalyzeLocalStorage
    \/ AnalyzeCookies
    \/ AnalyzeWalletTracking
    \/ SaveScreenshot
    \/ Close
    \/ SaveResults

\* const report = analyzer.generateReport(), the caller going on at `next`
CallGenerateReport(next) ==
    /\ pc' = next
    /\ report' = generateReport(results)
    /\ prevReport' = report
    /\ UNCHANGED <<idx, url, calls, results, browsers, error, logged, writes,
                   endVars, sessionVars>>

(***************************************************************************)
(* A client of the class: any calls of analyze and generateReport, one at  *)
(* a time, going on after a call that rejected; it asks for the report up  *)
(* to twice in a row.                                                       *)
(***************************************************************************)
ClientAnalyze ==
    /\ pc = "idle"
    /\ idx < MaxCalls
    /\ \E u \in Sites : BeginAnalyze(u)

ClientReport ==
    /\ pc = "idle"
    /\ prevReport = NoReport
    /\ CallGenerateReport("idle")

Next == ClientAnalyze \/ ClientReport \/ Analyze

Spec == Init /\ [][Next]_vars

(***************************************************************************)
(* runAnalysis of run-analysis.js.                                          *)
(***************************************************************************)
\* for (const dapp of DAPPS_TO_ANALYZE) await analyzer.analyze(dapp)
RunnerAnalyze ==
    /\ pc = "idle"
    /\ outcome # "raised"
    /\ idx < Len(DAPPS_TO_ANALYZE)
    /\ BeginAnalyze(DAPPS_TO_ANALYZE[idx + 1])

\* after the loop: generateReport and the two console.log
RunnerReport ==
    /\ pc = "idle"
    /\ outcome # "raised"
    /\ idx = Len(DAPPS_TO_ANALYZE)
    /\ CallGenerateReport("done")

\* an analyze call rejected: runAnalysis rejects, .catch(console.error)
RunnerAbort ==
    /\ pc = "idle"
    /\ outcome = "raised"
    /\ pc' = "aborted"
    /\ UNCHANGED <<results, browsers, error, logged, writes, endVars, callerVars,
                   sessionVars>>

RunNext == RunnerAnalyze \/ RunnerReport \/ RunnerAbort \/ Analyze

RunSpec == Init /\ [][RunNext]_vars

(***************************************************************************)
(* The route handler on its own: a session whose page, once the navigation *)
(* request has gone through, issues one request put together from the      *)
(* fragments below.                                                         *)
(***************************************************************************)
Fragments ==
    {"cookie3.co", "cookie3.", "co", "analytics", "Analytics", "tracking",
     "collect", "llect", "wallet", "/api"}

RECURSIVE Paths(_)
Paths(n) ==
    IF n = 0 THEN {""}
    ELSE LET shorter == Paths(n - 1)
         IN  shorter \cup {q \o f : q \in shorter, f \in Fragments}

RequestUrls == {"https://" \o q : q \in Paths(MaxFrags)}

CatSite == "https://app.uniswap.org"

CatInit ==
    /\ pc = "loading"
    /\ idx = 1
    /\ url = CatSite
    /\ calls = <<CatSite>>
    /\ results = StoreRecord(<<>>, CatSite, FreshRecord(CatSite, 1))
    /\ browsers = {1}
    /\ \E u \in RequestUrls :
          /\ page = [PlainPage EXCEPT !.requests = <<u>>]
          /\ pending = <<u>>
    /\ continued = <<CatSite>>
    /\ routed = TRUE
    /\ patched = TRUE
    /\ windowFp = {}
    /\ error = NoError
    /\ logged = {}
    /\ writes = <<>>
    /\ outcome = "none"
    /\ ret = NoValue
    /\ report = NoReport
    /\ prevReport = NoReport

CatNext == OnRequest

CatSpec == CatInit /\ [][CatNext]_vars

(***************************************************************************)
(* The properties.                                                          *)
(***************************************************************************)
LastWrite == writes[Len(writes)]

WritesOfCall(k) == {j \in 1..Len(writes) : writes[j].call = k}

C2_NoSessionOutlivesItsCall == pc = "idle" => browsers = {}

DeclaredFields ==
    {"url", "timestamp", "trackingScripts", "networkRequests", "cookies",
     "localStorage", "fingerprinting", "walletTracking"}

\* C3: the record analyze returns has url, timestamp and every declared
\* sub-field; when a step failed errors is non-empty, and when navigation
\* failed the extracted fields hold their empty or default values.
C3_ReturnedRecordHasEveryDeclaredField ==
    (pc = "idle" /\ outcome = "returned") =>
        /\ DeclaredFields \subseteq DOMAIN ret
        /\ error # NoError => ("errors" \in DOMAIN ret /\ ret.errors # <<>>)
        /\ error = GotoTimeout =>
              /\ ret.trackingScripts = <<>>
              /\ ret.cookies = <<>>
              /\ ret.localStorage = EmptyStorage
              /\ ret.walletTracking = [detected |-> FALSE, methods |-> <<>>]

\* C4: in the record of an analysis whose navigation and extraction went
\* through, the canvas, webgl and audio flags are true exactly for the APIs the
\* page invoked while it loaded.
C4_InvokedApisAreFlagged ==
    (pc = "idle" /\ outcome = "returned" /\ error = NoError) =>
        \A api \in {"canvas", "webgl", "audio"} :
            ret.fingerprinting[api] <=> api \in page.invokes

\* C5: the batch runner calls analyze once per URL in list order, a session is
\* launched only when no other is open, so at most one session is ever open,
\* and generateReport is called once, after the last analyze has returned,
\* and not at all when an analyze call raised.
C5_RunnerIsSequential ==
    /\ calls = SubSeq(DAPPS_TO_ANALYZE, 1, idx)
    /\ Cardinality(browsers) <= 1
    /\ browsers \subseteq {idx}
    /\ pc = "launch" => browsers = {}
    /\ outcome = "raised" => pc \in {"idle", "aborted"}
    /\ report # NoReport <=> pc = "done"
    /\ prevReport = NoReport
    /\ pc = "done" =>
          /\ idx = Len(DAPPS_TO_ANALYZE)
          /\ outcome = "returned"
          /\ browsers = {}
    /\ pc = "aborted" => outcome = "raised"

C5_Witness ==
    /\ pc = "done"
    /\ calls = DAPPS_TO_ANALYZE
    /\ Len(calls) >= 2
    /\ report.analyzedUrls = Len(calls)

C7_ReportIsAPureTally ==
    report # NoReport =>
        /\ report.details = results
        /\ report.analyzedUrls = Cardinality(DOMAIN results)
        /\ report.walletTrackingDetected =
              Cardinality({u \in DOMAIN results : results[u].walletTracking.detected})
        /\ DOMAIN results = {} =>
              /\ report.analyzedUrls = 0
              /\ report.trackingImplementations =
                    [cookie3 |-> 0, googleAnalytics |-> 0, customTracking |-> 0]
              /\ report.fingerprintingDetected = 0
              /\ report.walletTrackingDetected = 0
              /\ DOMAIN report.details = {}
        /\ prevReport # NoReport => prevReport = report

C7_Witness ==
    /\ report # NoReport
    /\ prevReport # NoReport
    /\ Cardinality(DOMAIN results) = 2
    /\ report.walletTrackingDetected = 1
    /\ report.analyzedUrls = 2

Has(u, pattern) == Includes(u, pattern)

\* C8: a request the route handler has seen is recorded exactly when its URL
\* contains one of cookie3.co, analytics, tracking, collect, wallet, and a
\* recorded request is of type cookie3 when it contains cookie3.co, else
\* analytics when it contains analytics, else tracking when it contains
\* tracking, and other exactly when it matched only collect or wallet.
C8_CategorizationFollowsPrecedence ==
    LET recorded == results[url].networkRequests
    IN  /\ \A k \in 1..Len(continued) :
              (\E j \in 1..Len(recorded) : recorded[j].url = continued[k])
                  <=> \/ Has(continued[k], "cookie3.co")
                      \/ Has(continued[k], "analytics")
                      \/ Has(continued[k], "tracking")
                      \/ Has(continued[k], "collect")
                      \/ Has(continued[k], "wallet")
        /\ \A j \in 1..Len(recorded) :
              LET u == recorded[j].url
                  type == recorded[j].type
              IN  /\ u \in Range(continued)
                  /\ type \in {"cookie3", "analytics", "tracking", "other"}
                  /\ type = "cookie3" <=> Has(u, "cookie3.co")
                  /\ type = "analytics" <=>
                        (~Has(u, "cookie3.co") /\ Has(u, "analytics"))
                  /\ type = "tracking" <=>
                        (~Has(u, "cookie3.co") /\ ~Has(u, "analytics")
                            /\ Has(u, "tracking"))
                  /\ type = "other" <=>
                        (/\ ~Has(u, "cookie3.co")
                         /\ ~Has(u, "analytics")
                         /\ ~Has(u, "tracking")
                         /\ (Has(u, "collect") \/ Has(u, "wallet")))

C8_Witness ==
    /\ pending = <<>>
    /\ \E j \in 1..Len(results[url].networkRequests) :
          LET r == results[url].networkRequests[j]
          IN  /\ Has(r.url, "cookie3.co")
              /\ Has(r.url, "analytics")
              /\ r.type = "cookie3"

\* C9: every analyze call that returns has made one saveResults attempt, the
\* k-th attempt of a run serialises the entries of the first k URLs of the
\* list, so each attempt's key set contains the one before, and a run that
\* completes has made as many attempts as the list has URLs.
C9_OneGrowingSnapshotPerCall ==
    /\ Len(writes) = (IF outcome = "returned" \/ idx = 0 THEN idx ELSE idx - 1)
    /\ \A k \in 1..Len(writes) :
          /\ writes[k].call = k
          /\ DOMAIN writes[k].data = {DAPPS_TO_ANALYZE[j] : j \in 1..k}
          /\ k > 1 => DOMAIN writes[k - 1].data \subseteq DOMAIN writes[k].data
    /\ pc = "done" => Len(writes) = Len(DAPPS_TO_ANALYZE)

C9_Witness ==
    /\ pc = "done"
    /\ Len(writes) = Len(DAPPS_TO_ANALYZE)
    /\ Len(writes) >= 2
    /\ Cardinality(DOMAIN LastWrite.data) = Len(writes)

NoTraceOfFileFailure ==
    ("screenshot" \in logged \/ "results" \in logged) =>
        /\ outcome # "raised"
        /\ "screenshot" \in logged =>
              /\ error = NoError
              /\ "errors" \notin DOMAIN results[url]
              /\ pc \in {"close", "saveResults", "idle"}
        /\ "results" \in logged =>
              /\ pc = "idle"
              /\ outcome = "returned"
              /\ ret = results[url]
              /\ ("errors" \in DOMAIN ret) <=> (error # NoError)

\* C10: saveScreenshot always goes on to the session teardown and saveResults
\* always goes on to the return of the record, whether or not the file was
\* written; the step in which the screenshot or the results file cannot be
\* written changes neither the results mapping nor the caught error and does
\* not make analyze raise, and after a failed screenshot the session is closed
\* and the results are handed to saveResults.
C10_FileFailuresAreSwallowed ==
    [][/\ NoTraceOfFileFailure
       /\ NoTraceOfFileFailure'
       /\ (pc = "saveScreenshot" /\ pc' # pc) =>
              /\ pc' = "close"
              /\ results' = results
              /\ error' = error
       /\ (pc = "saveResults" /\ pc' # pc) =>
              /\ pc' = "idle"
              /\ results' = results
              /\ outcome' = "returned"
       /\ ("screenshot" \in logged' /\ "screenshot" \notin logged) =>
              /\ pc = "saveScreenshot"
              /\ pc' = "close"
              /\ results' = results
              /\ error' = error
              /\ browsers' = browsers
       /\ ("results" \in logged' /\ "results" \notin logged) =>
              /\ pc = "saveResults"
              /\ pc' = "idle"
              /\ results' = results
              /\ error' = error
              /\ outcome' = "returned"
              /\ ret' = results[url]
       /\ ("screenshot" \in logged /\ pc = "close" /\ pc' # pc) =>
              /\ pc' = "saveResults"
              /\ idx \notin browsers'
       /\ ("screenshot" \in logged /\ pc = "saveResults" /\ pc' # pc) =>
              /\ pc' = "idle"
              /\ LastWrite'.call = idx
              /\ ret' = results[url]
              /\ "errors" \notin DOMAIN ret'
      ]_vars

C10_Witness ==
    /\ pc = "idle"
    /\ outcome = "returned"
    /\ {"screenshot", "results"} \subseteq logged
    /\ "errors" \notin DOMAIN ret
    /\ LastWrite.call = idx
    /\ idx \notin browsers

====
